---------------------------- MODULE Spec2Model ----------------------------
(***************************************************************************)
(* pyproject_transitioner: setup.py -> setup.cfg -> pyproject.toml.        *)
(*                                                                         *)
(* The module models six parts of the repository, each under its own       *)
(* specification:                                                          *)
(*   SpecName   NameValidator (validate / fix / validate)                  *)
(*   SpecDep    DependencyValidator._validate_dependency_list              *)
(*   SpecOrch   validate_and_format_toml, the validator loop               *)
(*   SpecMerge  merge_configs                                              *)
(*   SpecSetup  execsetup and setup_to_cfg                                 *)
(*   SpecPy2cfg py2cfg                                                     *)
(*                                                                         *)
(* A Python str is a sequence of one-character strings.                    *)
(***************************************************************************)
EXTENDS Integers, Sequences, FiniteSets, TLC

VARIABLES
    \* NameValidator
    nv_pc,          \* "new" | "validated" | "fixed" | "revalidated"
    nv_data_name,   \* data["project"]["name"]
    nv_name,        \* self._name
    nv_fixable,     \* self.fixable
    nv_errors,      \* the errors list handed to the last validate
    nv_warnings,    \* the warnings list handed to the last validate
    nv_first        \* the outcome of the first validate, kept for reference

nameVars == <<nv_pc, nv_data_name, nv_name, nv_fixable, nv_errors, nv_warnings, nv_first>>

VARIABLES
    \* DependencyValidator._validate_dependency_list, run and run again
    dv_pc,          \* "new" | "once" | "twice"
    dv_input,       \* the dependency list given to the first run
    dv_first,       \* the outcome of the first run
    dv_second       \* the outcome of the run on the first run's list

depVars == <<dv_pc, dv_input, dv_first, dv_second>>

VARIABLES
    \* validate_and_format_toml
    o_pc,                 \* "start" | "loop" | "done" | "raised"
    o_fix_errors,         \* the fix_errors argument
    o_file,               \* the pyproject.toml on disk
    o_loaded,             \* what handler.load() returned
    o_data,               \* data, the manifest in memory
    o_idx,                \* the validator the loop is at, 1..3, 4 past the end
    o_errors_occurred,
    o_unfixable_errors,
    o_need_fixing,
    o_ran,                \* the validators whose validate was called
    o_fixed,              \* the validators whose fix was called
    o_outcome,            \* validator -> what its validate reported
    o_saves,              \* the number of handler.save calls
    o_result              \* "pending" | "None" | "True" | "False"

orchVars == <<o_pc, o_fix_errors, o_file, o_loaded, o_data, o_idx, o_errors_occurred,
              o_unfixable_errors, o_need_fixing, o_ran, o_fixed, o_outcome,
              o_saves, o_result>>

VARIABLES
    \* merge_configs on three documents, in both groupings
    m_pc,           \* "AB" | "AB_C" | "BC" | "A_BC" | "done", the merge to run next
    m_A, m_B, m_C,  \* the three documents
    m_AB,           \* merge_configs(A, B)
    m_AB_C,         \* merge_configs(merge_configs(A, B), C)
    m_BC,           \* merge_configs(B, C)
    m_A_BC          \* merge_configs(A, merge_configs(B, C))

mergeVars == <<m_pc, m_A, m_B, m_C, m_AB, m_AB_C, m_BC, m_A_BC>>

VARIABLES
    \* execsetup and setup_to_cfg
    s_pc,               \* where the call is, see NextSetup
    s_cwd,              \* the working directory of the process
    s_cwd0,             \* the working directory before the call
    s_modules,          \* sys.modules
    s_modules0,         \* sys.modules before the call
    s_original,         \* the copy patch.dict keeps to restore from
    s_saved,            \* the local cwd of execsetup
    s_script_dir,       \* setup_py.parent, or NoDir when it does not exist
    s_script_log,       \* what the running script has done so far
    s_setup_call_args,  \* mock_setup.call_args: NoCall or the keyword arguments
    s_find_call_args,   \* mock_find_packages.call_args: NoCall or "call"
    s_exc,              \* the exception in flight or raised, "none" without one
    s_cfg,              \* the setup.cfg on disk, NoFile when there is none
    s_cfg0,             \* the setup.cfg on disk before the call
    s_writes            \* the number of times setup.cfg was opened for writing

setupVars == <<s_pc, s_cwd, s_cwd0, s_modules, s_modules0, s_original, s_saved,
               s_script_dir, s_script_log, s_setup_call_args, s_find_call_args,
               s_exc, s_cfg, s_cfg0, s_writes>>

VARIABLES
    \* py2cfg
    p_pc,                  \* "call" | "returned" | "raised"
    p_setup,               \* setup, the keyword arguments captured from setup(...)
    p_mock_find_packages,  \* the mock_find_packages argument
    p_result               \* what py2cfg returned

py2cfgVars == <<p_pc, p_setup, p_mock_find_packages, p_result>>

vars == <<nameVars, depVars, orchVars, mergeVars, setupVars, py2cfgVars>>

-----------------------------------------------------------------------------
(* Characters *)

UpperChars == <<"A","B","C","D","E","F","G","H","I","J","K","L","M",
                "N","O","P","Q","R","S","T","U","V","W","X","Y","Z">>

LowerChars == <<"a","b","c","d","e","f","g","h","i","j","k","l","m",
                "n","o","p","q","r","s","t","u","v","w","x","y","z">>

DigitChars == <<"0","1","2","3","4","5","6","7","8","9">>

\* The characters of the model in code point order (str comparison of Python).
CodeOrder == <<"\n", " ", "!", "\"", "'", "+", ",", "-", ".">> \o DigitChars
             \o <<";", "<", "=", ">">> \o UpperChars \o <<"_">> \o LowerChars
             \o <<"~">>

Range(s) == {s[i] : i \in 1..Len(s)}

Chars == Range(CodeOrder)

Ord == [c \in Chars |-> CHOOSE i \in 1..Len(CodeOrder) : CodeOrder[i] = c]

ToLower == [c \in Chars |->
              IF c \in Range(UpperChars)
              THEN LowerChars[CHOOSE i \in 1..26 : UpperChars[i] = c]
              ELSE c]

IsDigit(c) == c \in Range(DigitChars)

IsAlnum(c) == c \in Range(UpperChars) \cup Range(LowerChars) \cup Range(DigitChars)

\* [-_.]
IsSep(c) == c \in {"-", "_", "."}

\* str.lower()
str_lower(s) == [i \in 1..Len(s) |-> ToLower[s[i]]]

\* The characters of s at the positions that satisfy Keep, in order.
Project(s, Keep(_)) ==
    LET pairs == [i \in 1..Len(s) |-> <<i, s[i]>>]
        kept  == SelectSeq(pairs, LAMBDA p : Keep(p[1]))
    IN  [j \in 1..Len(kept) |-> kept[j][2]]

\* All sequences over S of length 0..n.
SeqsUpTo(S, n) == UNION {[1..k -> S] : k \in 0..n}

-----------------------------------------------------------------------------
(* normalize_project_name and NameValidator *)

\* re.sub(r"[-_.]+", "-", name).lower()
normalize_project_name(name) ==
    LET first(i)  == ~IsSep(name[i]) \/ i = 1 \/ ~IsSep(name[i-1])
        collapsed == Project(name, first)
    IN  str_lower([i \in 1..Len(collapsed) |->
                      IF IsSep(collapsed[i]) THEN "-" ELSE collapsed[i]])

\* [A-Z0-9]|[A-Z0-9][A-Z0-9._-]*[A-Z0-9], ignoring case, on the whole of s.
IsIdentifier(s) ==
    /\ Len(s) >= 1
    /\ IsAlnum(s[1])
    /\ IsAlnum(s[Len(s)])
    /\ \A i \in 1..Len(s) : IsAlnum(s[i]) \/ IsSep(s[i])

\* re.search("^([A-Z0-9]|[A-Z0-9][A-Z0-9._-]*[A-Z0-9])$", name, re.IGNORECASE):
\* without re.MULTILINE, $ matches at the end of the string and also just
\* before a newline that ends the string.
NameGrammar(name) ==
    \/ IsIdentifier(name)
    \/ /\ Len(name) >= 2
       /\ name[Len(name)] = "\n"
       /\ IsIdentifier(SubSeq(name, 1, Len(name) - 1))

ErrInvalidName == [kind |-> "must only contain"]

ErrShouldBe(n) == [kind |-> "should be", name |-> n]

\* NameValidator.validate: what it appends to errors and warnings, and the
\* fields of the validator afterwards (fixable0, name0: the fields before).
NameValidator_validate(name, fixable0, name0) ==
    IF ~NameGrammar(name)
    THEN [errors |-> <<ErrInvalidName>>, warnings |-> <<>>,
          fixable |-> FALSE, exit_early |-> FALSE, name |-> name0]
    ELSE LET n == normalize_project_name(name)
         IN  [errors   |-> IF name # n THEN <<ErrShouldBe(n)>> ELSE <<>>,
              warnings |-> <<>>,
              fixable  |-> fixable0, exit_early |-> FALSE, name |-> n]

-----------------------------------------------------------------------------
(* DependencyValidator: repair, parse, normalize, sort *)

\* [><=!]
IsOpChar(c) == c \in {">", "<", "=", "!"}

\* s1 \o s2 \o ... for a sequence of strings.
RECURSIVE Flatten(_)
Flatten(ss) == IF ss = <<>> THEN <<>> ELSE Head(ss) \o Flatten(Tail(ss))

\* sep.join(ss)
RECURSIVE Join(_, _)
Join(ss, sep) ==
    IF ss = <<>> THEN <<>>
    ELSE IF Len(ss) = 1 THEN ss[1]
    ELSE ss[1] \o sep \o Join(Tail(ss), sep)

\* The first j >= i that is past the end of s or whose character fails P.
SpanEnd(s, i, P(_)) ==
    CHOOSE j \in i..(Len(s) + 1) :
        /\ j = Len(s) + 1 \/ ~P(s[j])
        /\ \A k \in i..(j - 1) : P(s[k])

\* dependency.replace(';', '')
RemoveSemicolons(s) == Project(s, LAMBDA i : s[i] # ";")

\* re.sub(r'(?<=[^><=!])=', '==', s): every '=' that follows a character
\* other than > < = ! is doubled.
DoubleBareEquals(s) ==
    Flatten([i \in 1..Len(s) |->
               IF s[i] = "=" /\ i > 1 /\ ~IsOpChar(s[i-1])
               THEN <<"=", "=">> ELSE <<s[i]>>])

\* re.sub(r'(?<=[^><=!])c{2,}', c * keep, s) for c one of = > <: a maximal run
\* of two or more c that follows a character other than > < = ! is cut to
\* its first `keep` characters.
CollapseRuns(s, c, keep) ==
    LET start(j)   == CHOOSE i \in 1..j :
                          /\ \A k \in i..j : s[k] = c
                          /\ i = 1 \/ s[i-1] # c
        matched(j) == LET i == start(j)
                      IN  /\ i > 1
                          /\ ~IsOpChar(s[i-1])
                          /\ i < j \/ (j < Len(s) /\ s[j+1] = c)
        kept(j)    == s[j] # c \/ ~matched(j) \/ j - start(j) < keep
    IN  Project(s, kept)

\* re.sub(r'([><=!]{1,2})[^0-9]*([\d.]+)', r'\1\2', s), scanning from i.
\* After one or two operator characters the non-digits that precede the
\* next digit are dropped; with no digit left, the match backtracks to the
\* last '.' of the rest.
RECURSIVE StripAfterOperator(_, _)
StripAfterOperator(s, i) ==
    IF i > Len(s) THEN <<>>
    ELSE IF ~IsOpChar(s[i]) THEN <<s[i]>> \o StripAfterOperator(s, i + 1)
    ELSE
      LET g      == IF i < Len(s) /\ IsOpChar(s[i+1]) THEN i + 1 ELSE i
          digits == {k \in (g + 1)..Len(s) : IsDigit(s[k])}
          dots   == {k \in (g + 1)..Len(s) : s[k] = "."}
      IN  IF digits # {}
          THEN LET d == CHOOSE k \in digits : \A m \in digits : k <= m
                   e == SpanEnd(s, d, LAMBDA c : IsDigit(c) \/ c = ".")
               IN  SubSeq(s, i, g) \o SubSeq(s, d, e - 1)
                       \o StripAfterOperator(s, e)
          ELSE IF dots # {}
          THEN LET p == CHOOSE k \in dots : \A m \in dots : k >= m
               IN  SubSeq(s, i, g) \o <<".">> \o StripAfterOperator(s, p + 1)
          ELSE <<s[i]>> \o StripAfterOperator(s, i + 1)

\* DependencyValidator._correct_dependency_syntax
correct_dependency_syntax(dependency) ==
    LET c1 == RemoveSemicolons(dependency)
        c2 == DoubleBareEquals(c1)
        c3 == CollapseRuns(c2, "=", 2)
        c4 == CollapseRuns(c3, ">", 1)
        c5 == CollapseRuns(c4, "<", 1)
    IN  StripAfterOperator(c5, 1)

\* Python's str comparison s < t, by code point.
StrLess(s, t) ==
    \E k \in 1..(Len(t)) :
        /\ k <= Len(s) + 1
        /\ \A m \in 1..(k - 1) : s[m] = t[m]
        /\ k = Len(s) + 1 \/ Ord[s[k]] < Ord[t[k]]

\* sorted(ss) / list.sort() for a list of str.
SortStrings(ss) == SortSeq(ss, StrLess)

\* The elements of a sorted list without the repeats.
Dedupe(ss) == Project(ss, LAMBDA i : i = 1 \/ ss[i] # ss[i-1])

SkipWs(s, i) == SpanEnd(s, i, LAMBDA c : c = " ")

NoParse == [ok |-> FALSE]

\* The end (the first index after it) of a PEP 440 version that starts at i,
\* or 0: a release N(.N)* and an optional pre-release a or b, with the
\* separators PEP 440 allows around the tag.  Epochs, rc/post/dev/local
\* parts and wildcards are not modelled.
RECURSIVE ReleaseEnd(_, _)
ReleaseEnd(s, k) ==
    IF k < Len(s) /\ s[k] = "." /\ IsDigit(s[k+1])
    THEN ReleaseEnd(s, SpanEnd(s, k + 1, IsDigit))
    ELSE k

VersionEnd(s, i) ==
    IF i > Len(s) \/ ~IsDigit(s[i]) THEN 0
    ELSE LET k  == ReleaseEnd(s, SpanEnd(s, i, IsDigit))
             k2 == IF k <= Len(s) /\ IsSep(s[k]) THEN k + 1 ELSE k
         IN  IF k2 <= Len(s) /\ s[k2] \in {"a", "A", "b", "B"}
             THEN LET k3 == k2 + 1
                      k4 == IF k3 <= Len(s) /\ IsSep(s[k3]) THEN k3 + 1 ELSE k3
                  IN  SpanEnd(s, k4, IsDigit)
             ELSE k

TwoCharOps == {<<"~", "=">>, <<"=", "=">>, <<"!", "=">>, <<"<", "=">>, <<">", "=">>}

\* The comparison clauses "op version" from i to the end of s, separated
\* by commas: [ok, clauses].
RECURSIVE ParseClauses(_, _)
ParseClauses(s, i) ==
    LET two == i < Len(s) /\ SubSeq(s, i, i + 1) \in TwoCharOps
        one == i <= Len(s) /\ s[i] \in {"<", ">"}
        op  == IF two THEN SubSeq(s, i, i + 1) ELSE <<s[i]>>
        \* the clause before the clauses `rest`
        Before(clause, rest) ==
            IF ~rest.ok THEN NoParse
            ELSE [ok |-> TRUE, clauses |-> <<clause>> \o rest.clauses]
        \* the clause and a comma are read, the next clause begins at k2
        AfterComma(clause, k2) ==
            IF k2 > Len(s) THEN NoParse ELSE Before(clause, ParseClauses(s, k2))
        \* the clause is read, k is the first index after it that is not a space
        AfterClause(clause, k) ==
            IF k > Len(s) THEN [ok |-> TRUE, clauses |-> <<clause>>]
            ELSE IF s[k] # "," THEN NoParse
            ELSE AfterComma(clause, SkipWs(s, k + 1))
        \* the version is s[j..e-1]; e = 0: there is none
        Version(j, e) ==
            IF e = 0 THEN NoParse
            ELSE IF op = <<"~", "=">> /\ "." \notin Range(SubSeq(s, j, e - 1)) THEN NoParse
            ELSE AfterClause(op \o SubSeq(s, j, e - 1), SkipWs(s, e))
        VersionFrom(j) == Version(j, VersionEnd(s, j))
    IN  IF ~two /\ ~one THEN NoParse
        ELSE VersionFrom(SkipWs(s, i + Len(op)))

\* packaging.requirements.Requirement(s): [ok, name, clauses], or not ok
\* where it raises InvalidRequirement.  The grammar is that of a name
\* followed by comparison clauses (no extras, no URL; a marker needs the
\* ';' that _correct_dependency_syntax has removed).
Requirement(s) ==
    LET Parsed(name, r) ==
            IF r.ok THEN [ok |-> TRUE, name |-> name, clauses |-> r.clauses]
            ELSE NoParse
        \* the name is read, k is the first index after it that is not a space
        Named(name, k) ==
            IF k > Len(s) THEN [ok |-> TRUE, name |-> name, clauses |-> <<>>]
            ELSE Parsed(name, ParseClauses(s, k))
        \* the last letter or digit of s[i..j-1]
        NameEnd(i, j) ==
            CHOOSE k \in i..(j - 1) :
                IsAlnum(s[k]) /\ \A m \in (k + 1)..(j - 1) : ~IsAlnum(s[m])
        NameTo(i, e) == Named(SubSeq(s, i, e), SkipWs(s, e + 1))
        NameIn(i, j) == NameTo(i, NameEnd(i, j))
        NameFrom(i) ==
            IF i > Len(s) \/ ~IsAlnum(s[i]) THEN NoParse
            ELSE NameIn(i, SpanEnd(s, i, LAMBDA c : IsAlnum(c) \/ IsSep(c)))
    IN  NameFrom(SkipWs(s, 1))

\* str(requirement): the name, then the clauses of the specifier set
\* sorted as strings and joined by ",".
RequirementStr(name, clauses) ==
    name \o Join(Dedupe(SortStrings(clauses)), <<",">>)

\* str(requirement).lower().replace('"', "'")
NormalizedStr(name, clauses) ==
    LET lowered == str_lower(RequirementStr(name, clauses))
    IN  [i \in 1..Len(lowered) |-> IF lowered[i] = "\"" THEN "'" ELSE lowered[i]]

WarnCorrected(prefix, i, from, to) ==
    [kind |-> "was corrected", prefix |-> prefix, index |-> i, from |-> from, to |-> to]

WarnNotSorted(prefix, order) ==
    [kind |-> "are not sorted", prefix |-> prefix, order |-> order]

ErrUnparseable(prefix, i, dep) ==
    [kind |-> "invalid requirement", prefix |-> prefix, index |-> i, dep |-> dep]

\* DependencyValidator._validate_and_normalize_dependency for entry `index`:
\* [dep, errors, warnings, failed].
validate_and_normalize_dependency(corrected_dependency, index, message_prefix) ==
    LET Normalized(normalized_dependency) ==
            [dep      |-> normalized_dependency,
             errors   |-> <<>>,
             warnings |-> IF corrected_dependency # normalized_dependency
                          THEN <<WarnCorrected(message_prefix, index,
                                    corrected_dependency, normalized_dependency)>>
                          ELSE <<>>,
             failed   |-> FALSE]
        Parsed(requirement) ==
            IF requirement.ok
            THEN Normalized(NormalizedStr(normalize_project_name(requirement.name),
                                          requirement.clauses))
            ELSE [dep      |-> corrected_dependency,
                  errors   |-> <<ErrUnparseable(message_prefix, index, corrected_dependency)>>,
                  warnings |-> <<>>,
                  failed   |-> TRUE]
    IN  Parsed(Requirement(corrected_dependency))

\* DependencyValidator._validate_dependency_list: [out, errors, warnings,
\* fixable], errors and warnings being what the call appends and fixable
\* the validator's flag afterwards (fixable0: before).
validate_dependency_list(dependencies, message_prefix, fixable0) ==
    LET Sorted(each, normalized_dependencies) ==
            LET unsorted == [i \in 1..Len(dependencies) |-> str_lower(dependencies[i])]
                            # [i \in 1..Len(normalized_dependencies) |->
                                  str_lower(normalized_dependencies[i])]
                failed == \E i \in 1..Len(each) : each[i].failed
            IN  [out      |-> normalized_dependencies,
                 errors   |-> Flatten([i \in 1..Len(each) |-> each[i].errors]),
                 warnings |-> Flatten([i \in 1..Len(each) |-> each[i].warnings])
                              \o (IF unsorted
                                  THEN <<WarnNotSorted(message_prefix, normalized_dependencies)>>
                                  ELSE <<>>),
                 fixable  |-> IF unsorted THEN TRUE ELSE IF failed THEN FALSE ELSE fixable0]
        Each(each) == Sorted(each, SortStrings([i \in 1..Len(each) |-> each[i].dep]))
    IN  Each([i \in 1..Len(dependencies) |->
                validate_and_normalize_dependency(
                    correct_dependency_syntax(dependencies[i]), i, message_prefix)])

-----------------------------------------------------------------------------
(* SpecName: one NameValidator, validate, fix, validate again *)

MaxNameLen == 3

NameAlphabet == {"A", "b", "1", "-", "_", ".", "+", "\n"}

MyProjectName == <<"M","y","_","P","r","o","j","e","c","t",".","N","a","m","e">>

NameInputs == SeqsUpTo(NameAlphabet, MaxNameLen) \cup {MyProjectName}

NoOutcome == [errors |-> <<>>, warnings |-> <<>>, fixable |-> TRUE,
              exit_early |-> FALSE, name |-> <<>>]

\* NameValidator.__init__, and a manifest whose project name is any input.
InitName ==
    /\ nv_pc = "new"
    /\ nv_data_name \in NameInputs
    /\ nv_name = <<>>
    /\ nv_fixable = TRUE
    /\ nv_errors = <<>>
    /\ nv_warnings = <<>>
    /\ nv_first = NoOutcome

IdleName ==
    /\ nv_pc = "idle"
    /\ nv_data_name = <<>>
    /\ nv_name = <<>>
    /\ nv_fixable = TRUE
    /\ nv_errors = <<>>
    /\ nv_warnings = <<>>
    /\ nv_first = NoOutcome

\* validator.validate(data, errors, warnings) with fresh lists.
NameValidate ==
    /\ nv_pc \in {"new", "fixed"}
    /\ LET r == NameValidator_validate(nv_data_name, nv_fixable, nv_name)
       IN  /\ nv_errors' = r.errors
           /\ nv_warnings' = r.warnings
           /\ nv_fixable' = r.fixable
           /\ nv_name' = r.name
           /\ nv_first' = IF nv_pc = "new" THEN r ELSE nv_first
    /\ nv_pc' = IF nv_pc = "new" THEN "validated" ELSE "revalidated"
    /\ UNCHANGED nv_data_name
    /\ UNCHANGED <<depVars, orchVars, mergeVars, setupVars, py2cfgVars>>

\* NameValidator.fix: data["project"]["name"] = self._name.  The validator
\* loop calls it only for a validator that reported something and is
\* fixable or gave warnings.
NameFix ==
    /\ nv_pc = "validated"
    /\ nv_errors # <<>> \/ nv_warnings # <<>>
    /\ nv_fixable \/ nv_warnings # <<>>
    /\ nv_data_name' = nv_name
    /\ nv_pc' = "fixed"
    /\ UNCHANGED <<nv_name, nv_fixable, nv_errors, nv_warnings, nv_first>>
    /\ UNCHANGED <<depVars, orchVars, mergeVars, setupVars, py2cfgVars>>

NextName == NameValidate \/ NameFix


\* The canonical form of a name, read off the rule: every run of '-', '_',
\* '.' becomes one '-', every letter its lower case.
RECURSIVE CanonicalForm(_)
CanonicalForm(s) ==
    IF s = <<>> THEN <<>>
    ELSE IF IsSep(Head(s))
    THEN IF Len(s) > 1 /\ IsSep(s[2])
         THEN CanonicalForm(Tail(s))
         ELSE <<"-">> \o CanonicalForm(Tail(s))
    ELSE <<ToLower[Head(s)]>> \o CanonicalForm(Tail(s))

MyProjectNameCanonical ==
    <<"m","y","-","p","r","o","j","e","c","t","-","n","a","m","e">>

\* C9: NameValidator.validate has exactly three outcomes: a name outside
\* the grammar (ASCII letters, digits, '.', '_', '-', a letter or digit at
\* both ends) gives one error and fixable False; a name of the grammar that
\* is not its canonical form gives one error carrying the canonical form and
\* leaves fixable True; a canonical name gives no error and no warning.
\* After fix in the second case a further validate gives no error, and
\* 'My_Project.Name' is fixed to 'my-project-name'.
C9_NameOutcomes ==
    /\ nv_pc = "validated" =>
         /\ ~IsIdentifier(nv_data_name) =>
               /\ nv_errors = <<ErrInvalidName>>
               /\ nv_warnings = <<>>
               /\ nv_fixable = FALSE
         /\ (IsIdentifier(nv_data_name) /\ nv_data_name # CanonicalForm(nv_data_name)) =>
               /\ nv_errors = <<ErrShouldBe(CanonicalForm(nv_data_name))>>
               /\ nv_warnings = <<>>
               /\ nv_fixable = TRUE
         /\ (IsIdentifier(nv_data_name) /\ nv_data_name = CanonicalForm(nv_data_name)) =>
               /\ nv_errors = <<>>
               /\ nv_warnings = <<>>
               /\ nv_fixable = TRUE
    /\ nv_pc = "fixed" =>
         /\ nv_first.errors = <<ErrShouldBe(nv_data_name)>>
         /\ nv_first.errors = <<ErrShouldBe(MyProjectNameCanonical)>>
              <=> nv_data_name = MyProjectNameCanonical
    /\ nv_pc = "revalidated" =>
         /\ nv_errors = <<>>
         /\ nv_warnings = <<>>

-----------------------------------------------------------------------------
(* SpecDep: a dependency list normalized, and its result normalized again *)

MaxDeps == 2

Str_a == <<"a">>
Str_Fo_b == <<"F", "o", "_", "b">>
Str_z_z == <<"z", " ", "z">>

DepNames == {Str_a, Str_Fo_b, Str_z_z}

DepClauses ==
    { <<>>,
      <<"=", "1">>,
      <<"=", "=", "1", ".", "0">>,
      <<">", "=", " ", "1">>,
      <<"~", "=", "1", ".", "0">>,
      <<"=", "=", "1", "B", ",", "=", "=", "1", "a">>,
      <<"<", "2", ",", ">", "=", "1">> }

DepSuffixes == { <<>>, <<";">> }

\* a;x>"3": a requirement with an environment marker.
DepWithMarker == <<"a", ";", "x", ">", "\"", "3", "\"">>

RawDeps == {n \o c \o x : n \in DepNames, c \in DepClauses, x \in DepSuffixes}
           \cup {DepWithMarker}

NoListOutcome == [out |-> <<>>, errors |-> <<>>, warnings |-> <<>>, fixable |-> TRUE]

InitDep ==
    /\ dv_pc = "new"
    /\ dv_input \in SeqsUpTo(RawDeps, MaxDeps)
    /\ dv_first = NoListOutcome
    /\ dv_second = NoListOutcome

IdleDep ==
    /\ dv_pc = "idle"
    /\ dv_input = <<>>
    /\ dv_first = NoListOutcome
    /\ dv_second = NoListOutcome

\* _validate_dependency_list(dependencies, errors, warnings) of a new validator.
DepNormalize ==
    /\ dv_pc = "new"
    /\ dv_first' = validate_dependency_list(dv_input, "dependencies", TRUE)
    /\ dv_pc' = "once"
    /\ UNCHANGED <<dv_input, dv_second>>
    /\ UNCHANGED <<nameVars, orchVars, mergeVars, setupVars, py2cfgVars>>

\* The same call of a new validator on the list the first call returned.
DepNormalizeAgain ==
    /\ dv_pc = "once"
    /\ dv_second' = validate_dependency_list(dv_first.out, "dependencies", TRUE)
    /\ dv_pc' = "twice"
    /\ UNCHANGED <<dv_input, dv_first>>
    /\ UNCHANGED <<nameVars, orchVars, mergeVars, setupVars, py2cfgVars>>

NextDep == DepNormalize \/ DepNormalizeAgain

\* C6: dependency normalization is idempotent: when the first run records
\* no error, the run on its result records no error and no warning and
\* returns the same list.
C6_NormalizationIdempotent ==
    (dv_pc = "twice" /\ dv_first.errors = <<>>)
        => /\ dv_second.errors = <<>>
           /\ dv_second.warnings = <<>>
           /\ dv_second.out = dv_first.out


-----------------------------------------------------------------------------
(* The validators on a manifest *)

\* A manifest: the fields the build-system table holds, whether the project
\* table gives a version statically, lists it as dynamic or lacks it,
\* the project name if there is one, the dependency list and the table of
\* optional-dependency groups (in the order of the file).
Manifest(bs, version, has_name, name, deps, optional) ==
    [readable |-> TRUE, build_system |-> bs, version |-> version,
     has_name |-> has_name, name |-> name,
     dependencies |-> deps, optional |-> optional]

ErrSchema(table) == [kind |-> "schema", table |-> table]

\* BuildSystemConfig(**data.get("build-system", {})): build-backend and
\* requires are the required fields.
BuildSystemConforms(data) == {"build-backend", "requires"} \subseteq data.build_system

\* ProjectConfig(**data.get("project", {})): name is required, and version
\* unless it is listed as dynamic.
ProjectConforms(data) == data.has_name /\ data.version \in {"static", "dynamic"}

\* The mutant: the violations are recorded but exit_early is left False.
SpecValidator_validate_no_exit_early(data) ==
    [errors     |-> (IF BuildSystemConforms(data) THEN <<>> ELSE <<ErrSchema("build-system")>>)
                    \o (IF ProjectConforms(data) THEN <<>> ELSE <<ErrSchema("project")>>),
     warnings   |-> <<>>,
     fixable    |-> BuildSystemConforms(data) /\ ProjectConforms(data),
     exit_early |-> FALSE,
     name |-> <<>>, dependencies |-> <<>>, optional |-> <<>>]

\* SpecValidator.validate of a new validator.
SpecValidator_validate(data) ==
    LET bad == ~BuildSystemConforms(data) \/ ~ProjectConforms(data)
    IN  [errors     |-> (IF BuildSystemConforms(data) THEN <<>> ELSE <<ErrSchema("build-system")>>)
                        \o (IF ProjectConforms(data) THEN <<>> ELSE <<ErrSchema("project")>>),
         warnings   |-> <<>>,
         fixable    |-> ~bad,
         exit_early |-> bad,
         name |-> <<>>, dependencies |-> <<>>, optional |-> <<>>]

\* DependencyValidator._validate_optional_dependencies from group i on:
\* [groups, errors, warnings, fixable].
RECURSIVE validate_optional_dependencies(_, _, _)
validate_optional_dependencies(optional, i, fixable0) ==
    IF i > Len(optional)
    THEN [groups |-> <<>>, errors |-> <<>>, warnings |-> <<>>, fixable |-> fixable0]
    ELSE LET Both(one, rest) ==
                 [groups   |-> <<[group |-> optional[i].group, deps |-> one.out]>>
                               \o rest.groups,
                  errors   |-> one.errors \o rest.errors,
                  warnings |-> one.warnings \o rest.warnings,
                  fixable  |-> rest.fixable]
             Group(one) ==
                 Both(one, validate_optional_dependencies(optional, i + 1, one.fixable))
         IN  Group(validate_dependency_list(optional[i].deps, optional[i].group, fixable0))

\* DependencyValidator.validate of a new validator: the main list, then
\* every optional group.
DependencyValidator_validate(data) ==
    LET Both(main, opt) ==
            [errors     |-> main.errors \o opt.errors,
             warnings   |-> main.warnings \o opt.warnings,
             fixable    |-> opt.fixable,
             exit_early |-> FALSE,
             name |-> <<>>, dependencies |-> main.out, optional |-> opt.groups]
        Main(main) == Both(main, validate_optional_dependencies(data.optional, 1, main.fixable))
    IN  Main(validate_dependency_list(data.dependencies, "dependencies", TRUE))

\* DependencyValidator.fix
DependencyValidator_fix(data, r) ==
    [data EXCEPT !.dependencies = IF r.dependencies # <<>> THEN r.dependencies ELSE @,
                 !.optional     = IF r.optional # <<>> THEN r.optional ELSE @]

\* get_validators(): the validators in the order the loop runs them.
Validators == <<"specs", "naming", "dependencies">>

\* validator.validate(data, errors, warnings)
Validate(v, data) ==
    CASE v = "specs"        -> SpecValidator_validate(data)
      [] v = "naming"       ->
            LET Named(r) ==
                    [errors |-> r.errors, warnings |-> r.warnings, fixable |-> r.fixable,
                     exit_early |-> r.exit_early, name |-> r.name,
                     dependencies |-> <<>>, optional |-> <<>>]
            IN  Named(NameValidator_validate(data.name, TRUE, <<>>))
      [] v = "dependencies" -> DependencyValidator_validate(data)

\* data["project"]["name"] of a project table without a name: KeyError.
ValidateRaises(v, data) == v = "naming" /\ ~data.has_name

\* validator.fix(data)
Fix(v, data, r) ==
    CASE v = "specs"        -> data
      [] v = "naming"       -> [data EXCEPT !.name = r.name]
      [] v = "dependencies" -> DependencyValidator_fix(data, r)

-----------------------------------------------------------------------------
(* SpecOrch: validate_and_format_toml *)

\* fix_errors and (validator.fixable or warnings)
ShouldFix(fix_errors, fixable, warnings) ==
    fix_errors /\ (fixable \/ warnings # <<>>)

\* The mutant: the manifest is saved whenever a fix was applied.
ShouldSave_any_fix(need_fixing, unfixable_errors) == need_fixing

\* need_fixing and not unfixable_errors
ShouldSave(need_fixing, unfixable_errors) == need_fixing /\ ~unfixable_errors

\* The mutant: errors_occurred is not cleared after the save.
ErrorsAfterSave_kept(saved, errors_occurred) == errors_occurred

\* errors_occurred = False, after handler.save(data)
ErrorsAfterSave(saved, errors_occurred) == IF saved THEN FALSE ELSE errors_occurred

Str_a_b == <<"a", "-", "b">>
Str_A_b == <<"A", "_", "b">>
Str_dash_a == <<"-", "a">>
Str_B == <<"B">>

OrchBuildSystems == { {"build-backend", "requires"}, {"requires"} }

OrchVersions == {"static", "dynamic", "missing"}

\* A canonical name, one that is not, one outside the grammar.
OrchNames == {Str_a_b, Str_A_b, Str_dash_a}

\* A clean entry, one that is only lower-cased, one that does not parse.
OrchDeps == {Str_a, Str_B, Str_z_z}

OrchLists == SeqsUpTo(OrchDeps, MaxDeps)

\* The optional groups: none, or a group "test" of entries that need work.
OrchOptional ==
    {<<>>} \cup {<<[group |-> "test", deps |-> l]>> : l \in SeqsUpTo({Str_B, Str_z_z}, MaxDeps)}

Manifests ==
    {Manifest(bs, ver, TRUE, n, l, o) :
        bs \in OrchBuildSystems, ver \in OrchVersions, n \in OrchNames,
        l \in OrchLists, o \in OrchOptional}
    \cup
    {Manifest(bs, ver, FALSE, <<>>, l, o) :
        bs \in OrchBuildSystems, ver \in OrchVersions,
        l \in OrchLists, o \in OrchOptional}

\* A file handler.load() cannot read or parse.
UnreadableFile == [readable |-> FALSE]

NoOrchOutcome == [errors |-> <<>>, warnings |-> <<>>, fixable |-> TRUE,
                  exit_early |-> FALSE, name |-> <<>>,
                  dependencies |-> <<>>, optional |-> <<>>]

InitOrch ==
    /\ o_pc = "start"
    /\ o_fix_errors \in BOOLEAN
    /\ o_file \in Manifests \cup {UnreadableFile}
    /\ o_loaded = UnreadableFile
    /\ o_data = UnreadableFile
    /\ o_idx = 1
    /\ o_errors_occurred = FALSE
    /\ o_unfixable_errors = FALSE
    /\ o_need_fixing = FALSE
    /\ o_ran = {}
    /\ o_fixed = {}
    /\ o_outcome = [v \in Range(Validators) |-> NoOrchOutcome]
    /\ o_saves = 0
    /\ o_result = "pending"

IdleOrch ==
    /\ o_pc = "idle"
    /\ o_fix_errors = FALSE
    /\ o_file = UnreadableFile
    /\ o_loaded = UnreadableFile
    /\ o_data = UnreadableFile
    /\ o_idx = 1
    /\ o_errors_occurred = FALSE
    /\ o_unfixable_errors = FALSE
    /\ o_need_fixing = FALSE
    /\ o_ran = {}
    /\ o_fixed = {}
    /\ o_outcome = [v \in Range(Validators) |-> NoOrchOutcome]
    /\ o_saves = 0
    /\ o_result = "pending"

\* data = handler.load(); on an exception the function prints it and returns.
Load ==
    /\ o_pc = "start"
    /\ IF o_file.readable
       THEN /\ o_data' = o_file
            /\ o_loaded' = o_file
            /\ o_pc' = "loop"
            /\ UNCHANGED o_result
       ELSE /\ o_pc' = "done"
            /\ o_result' = "None"
            /\ UNCHANGED <<o_data, o_loaded>>
    /\ UNCHANGED <<o_fix_errors, o_file, o_idx, o_errors_occurred, o_unfixable_errors,
                   o_need_fixing, o_ran, o_fixed, o_outcome, o_saves>>
    /\ UNCHANGED <<nameVars, depVars, mergeVars, setupVars, py2cfgVars>>

\* One pass of the loop over get_validators().items().
RunValidator ==
    /\ o_pc = "loop"
    /\ o_idx <= Len(Validators)
    /\ LET v == Validators[o_idx]
           \* lines 388-403, r being what validate reported
           Validated(r) ==
               LET findings == r.errors # <<>> \/ r.warnings # <<>>
                   fix      == findings /\ ShouldFix(o_fix_errors, r.fixable, r.warnings)
                   unfix    == findings /\ ~fix
               IN  /\ o_ran' = o_ran \cup {v}
                   /\ o_outcome' = [o_outcome EXCEPT ![v] = r]
                   /\ o_errors_occurred' = (o_errors_occurred \/ findings)
                   /\ o_need_fixing' = (o_need_fixing \/ fix)
                   /\ o_fixed' = IF fix THEN o_fixed \cup {v} ELSE o_fixed
                   /\ o_data' = IF fix THEN Fix(v, o_data, r) ELSE o_data
                   /\ o_unfixable_errors' = (o_unfixable_errors \/ unfix)
                   /\ o_idx' = IF unfix /\ r.exit_early
                               THEN Len(Validators) + 1 ELSE o_idx + 1
                   /\ UNCHANGED o_pc
       IN  IF ValidateRaises(v, o_data)
           THEN /\ o_pc' = "raised"
                /\ o_ran' = o_ran \cup {v}
                /\ UNCHANGED <<o_data, o_idx, o_errors_occurred, o_unfixable_errors,
                               o_need_fixing, o_fixed, o_outcome>>
           ELSE Validated(Validate(v, o_data))
    /\ UNCHANGED <<o_fix_errors, o_file, o_loaded, o_saves, o_result>>
    /\ UNCHANGED <<nameVars, depVars, mergeVars, setupVars, py2cfgVars>>

\* After the loop: save if the fixes cover everything, and return.
Finish ==
    /\ o_pc = "loop"
    /\ o_idx > Len(Validators)
    /\ LET save == ShouldSave(o_need_fixing, o_unfixable_errors)
           left == ErrorsAfterSave(save, o_errors_occurred)
       IN  /\ o_file' = IF save THEN o_data ELSE o_file
           /\ o_saves' = IF save THEN o_saves + 1 ELSE o_saves
           /\ o_errors_occurred' = left
           /\ o_result' = IF left THEN "False" ELSE "True"
    /\ o_pc' = "done"
    /\ UNCHANGED <<o_fix_errors, o_loaded, o_data, o_idx, o_unfixable_errors,
                   o_need_fixing, o_ran, o_fixed, o_outcome>>
    /\ UNCHANGED <<nameVars, depVars, mergeVars, setupVars, py2cfgVars>>

NextOrch == Load \/ RunValidator \/ Finish

\* The loop has ended and the function has returned its verdict.
LoopReturned == o_pc = "done" /\ o_result # "None"

HasFindings(v) == o_outcome[v].errors # <<>> \/ o_outcome[v].warnings # <<>>

\* C1: once a validator is marked unfixable, handler.save is never called,
\* the file stays as it was loaded and the function returns False, also
\* when an earlier fix has changed the data in memory.
C1_UnfixableNeverSaves ==
    o_unfixable_errors =>
        /\ o_saves = 0
        /\ o_file = o_loaded
        /\ o_pc = "done" => o_result = "False"

\* An earlier fix changed the data in memory, a later validator was
\* unfixable, and the run ended without a write.
C1_Witness ==
    /\ o_pc = "done"
    /\ o_unfixable_errors
    /\ o_fixed # {}
    /\ o_data # o_loaded
    /\ o_file = o_loaded
    /\ o_result = "False"

\* C2 as stated: at the end of the loop either the run needs fixing with
\* nothing unfixable, and the manifest is saved and success reported, or
\* failure is reported and nothing is written.
C2_TwoOutcomes ==
    LoopReturned =>
        IF o_need_fixing /\ ~o_unfixable_errors
        THEN o_saves = 1 /\ o_file = o_data /\ o_result = "True"
        ELSE o_saves = 0 /\ o_file = o_loaded /\ o_result = "False"

\* C2 as amended: three outcomes.  Fixes applied and nothing unfixable:
\* saved, success.  No validator reported anything: nothing written,
\* success.  Otherwise: nothing written, failure.
C2_ThreeOutcomes ==
    LoopReturned =>
        IF o_need_fixing /\ ~o_unfixable_errors
        THEN o_saves = 1 /\ o_file = o_data /\ o_result = "True"
        ELSE IF \A v \in o_ran : ~HasFindings(v)
        THEN o_saves = 0 /\ o_file = o_loaded /\ o_result = "True"
        ELSE o_saves = 0 /\ o_file = o_loaded /\ o_result = "False"

\* All three validators ran on a clean manifest: success without a write.
C2_Witness ==
    /\ LoopReturned
    /\ o_ran = Range(Validators)
    /\ \A v \in o_ran : ~HasFindings(v)
    /\ o_saves = 0
    /\ o_result = "True"

\* C3: when the schema validator records a violation, its fix is not
\* called, the name and dependency validators never run and the manifest
\* is not written, whatever fix_errors is.
C3_SchemaViolationStops ==
    o_outcome["specs"].errors # <<>> =>
        /\ "specs" \notin o_fixed
        /\ "naming" \notin o_ran
        /\ "dependencies" \notin o_ran
        /\ o_saves = 0
        /\ o_file = o_loaded
        /\ o_pc = "done" => o_result = "False"

\* A run asked to fix ended on a schema violation.
C3_Witness ==
    /\ o_pc = "done"
    /\ o_fix_errors
    /\ o_outcome["specs"].errors # <<>>
    /\ o_ran = {"specs"}
    /\ o_result = "False"

\* C10: fix is called, and the run marked needs-fixing, exactly when the
\* validator reported something, fixing was requested and the validator is
\* fixable or reported warnings and no errors; with findings and no fix the
\* run is marked unfixable.
C10_FixExactlyWhen ==
    \A v \in o_ran :
        o_pc # "raised" =>
            LET r == o_outcome[v]
                expected == /\ HasFindings(v)
                            /\ o_fix_errors
                            /\ r.fixable \/ (r.warnings # <<>> /\ r.errors = <<>>)
            IN  /\ v \in o_fixed <=> expected
                /\ v \in o_fixed => o_need_fixing
                /\ (HasFindings(v) /\ v \notin o_fixed) => o_unfixable_errors

\* The list of manifest m that the messages of the dependency validator
\* name by `prefix`: the main list, or the optional group of that name.
ListNamed(m, prefix) ==
    IF prefix = "dependencies" THEN m.dependencies
    ELSE LET g == SelectSeq(m.optional, LAMBDA o : o.group = prefix)
         IN  IF g = <<>> THEN <<>> ELSE g[1].deps

\* The entries of list l that do not parse after repair.
UnparseableAt(l) == {i \in 1..Len(l) : ~Requirement(correct_dependency_syntax(l[i])).ok}

\* C11: once the dependency validator has run, every entry that does not
\* parse after repair has an error with its index, every list was
\* processed, and a list with such an entry is neither overwritten in the
\* manifest in memory nor written to the file.
C11_UnparseableListKept ==
    ("dependencies" \in o_ran /\ o_pc # "raised") =>
        LET r == o_outcome["dependencies"]
            lists == {"dependencies"} \cup {o_loaded.optional[i].group : i \in 1..Len(o_loaded.optional)}
        IN  /\ Len(r.optional) = Len(o_loaded.optional)
            /\ \A p \in lists : \A i \in UnparseableAt(ListNamed(o_loaded, p)) :
                   /\ \E k \in 1..Len(r.errors) :
                         /\ r.errors[k].kind = "invalid requirement"
                         /\ r.errors[k].prefix = p
                         /\ r.errors[k].index = i
                   /\ ListNamed(o_data, p) = ListNamed(o_loaded, p)
                   /\ ListNamed(o_file, p) = ListNamed(o_loaded, p)

\* The sorted normalized form of list l differs from l, ignoring case.
DiffersFromSorted(l) ==
    [i \in 1..Len(l) |-> str_lower(l[i])]
        # [i \in 1..Len(l) |-> str_lower(validate_dependency_list(l, "l", TRUE).out[i])]

\* C12: once the dependency validator has processed the main list and every
\* optional group, if the sorted normalized form of one of the lists
\* differs from the list, a warning names that list and the validator is
\* fixable, wherever the unparseable entries are; each of those has its error.
C12_SortableIsFixable ==
    ("dependencies" \in o_ran /\ o_pc # "raised") =>
        LET r == o_outcome["dependencies"]
            lists == {"dependencies"} \cup {o_loaded.optional[i].group : i \in 1..Len(o_loaded.optional)}
        IN  /\ \A p \in lists :
                   DiffersFromSorted(ListNamed(o_loaded, p)) =>
                       /\ \E k \in 1..Len(r.warnings) :
                             r.warnings[k].kind = "are not sorted" /\ r.warnings[k].prefix = p
                       /\ r.fixable
            /\ Cardinality({k \in 1..Len(r.errors) : r.errors[k].kind = "invalid requirement"})
                   = Cardinality({<<p, i>> \in lists \X (1..MaxDeps) :
                                     i \in UnparseableAt(ListNamed(o_loaded, p))})

\* The string an entry that parses after repair ends as, lines 226 and 213-214
FinalNormalized(dependency) ==
    validate_and_normalize_dependency(
        correct_dependency_syntax(dependency), 1, "dependencies").dep

\* C15: after _validate_dependency_list, for every entry of the list that
\* parses after repair, a "was corrected" warning with the entry's index is
\* recorded if and only if the final normalized string differs from the raw
\* string of the entry.
C15_WarningIffChanged ==
    dv_pc \in {"once", "twice"} =>
        \A i \in (1..Len(dv_input)) \ UnparseableAt(dv_input) :
            (\E k \in 1..Len(dv_first.warnings) :
                /\ dv_first.warnings[k].kind = "was corrected"
                /\ dv_first.warnings[k].index = i)
            <=> FinalNormalized(dv_input[i]) # dv_input[i]

-----------------------------------------------------------------------------
(* merge_configs *)

\* A document (a ConfigParser without defaults) is the sequence of its
\* sections, each [name, body]; a body is the sequence of its [key, value]
\* entries.  Names within a document and keys within a body are distinct.
\* Values are plain strings without '%'.

\* to_dict(cfg), lines 239-240: cfg.items() begins with the DEFAULT section,
\* whose body is empty for a document without defaults.
DefaultSection == [name |-> "DEFAULT", body |-> <<>>]

to_dict(cfg) == <<DefaultSection>> \o cfg

\* list(d.keys())
DictKeys(d) == [i \in 1..Len(d) |-> d[i].name]

HasKey(d, k) == \E i \in 1..Len(d) : d[i].name = k

\* d[k] for a key that is present
DictGet(d, k) == d[CHOOSE i \in 1..Len(d) : d[i].name = k].body

\* the truth value of d.get(k, None): None and {} are both false
Truthy(d, k) == HasKey(d, k) /\ DictGet(d, k) # <<>>

\* list.index
IndexOf(seq, x) == CHOOSE i \in 1..Len(seq) : seq[i] = x

\* key_order, lines 251-255
key_order(k1, k2, key) ==
    IF \E i \in 1..Len(k1) : k1[i] = key THEN IndexOf(k1, key) ELSE IndexOf(k2, key)

\* sorted(keys, key=key_order), line 257.  keys is a set, and sorted is stable:
\* two keys with the same key_order come out in the order the set yields
\* them, which depends on the hashes of the strings and is not fixed from
\* one process to the next.  Every order by key_order is a possible result.
RECURSIVE SortedKeysFrom(_, _, _)
SortedKeysFrom(k1, k2, rank) ==
    IF rank > Len(k1) /\ rank > Len(k2) THEN {<<>>}
    ELSE LET first  == IF rank <= Len(k1) THEN <<k1[rank]>> ELSE <<>>
             second == IF rank <= Len(k2) /\ ~(\E i \in 1..Len(k1) : k1[i] = k2[rank])
                       THEN <<k2[rank]>> ELSE <<>>
             here   == {first \o second, second \o first}
         IN  {h \o rest : h \in here, rest \in SortedKeysFrom(k1, k2, rank + 1)}

SortedKeys(d1, d2) == SortedKeysFrom(DictKeys(d1), DictKeys(d2), 1)

\* v1.copy() followed by .update(v2), lines 272-273
DictUpdate(v1, v2) ==
    LET in2(k)  == \E j \in 1..Len(v2) : v2[j].key = k
        val2(k) == v2[CHOOSE j \in 1..Len(v2) : v2[j].key = k].value
        in1(k)  == \E i \in 1..Len(v1) : v1[i].key = k
        kept    == [i \in 1..Len(v1) |->
                      IF in2(v1[i].key) THEN [key |-> v1[i].key, value |-> val2(v1[i].key)]
                      ELSE v1[i]]
    IN  kept \o SelectSeq(v2, LAMBDA e : ~in1(e.key))

\* The body of the loop, lines 261-273.  The else branch is also taken when
\* both values are false; then v1.copy() raises AttributeError if v1 is None,
\* and update(v2) raises TypeError if v2 is None.
MergeRaises(d1, d2, k) ==
    /\ ~Truthy(d1, k)
    /\ ~Truthy(d2, k)
    /\ (~HasKey(d1, k) \/ ~HasKey(d2, k))

MergedBody(d1, d2, k) ==
    IF Truthy(d1, k) /\ ~Truthy(d2, k) THEN DictGet(d1, k)
    ELSE IF Truthy(d2, k) /\ ~Truthy(d1, k) THEN DictGet(d2, k)
    ELSE DictUpdate(DictGet(d1, k), DictGet(d2, k))

Raised == [raised |-> TRUE, doc |-> <<>>]

\* merge_dicts(d1, d2), lines 242-275, with the sorted keys in the given order
merge_dicts(d1, d2, keys) ==
    IF \E i \in 1..Len(keys) : MergeRaises(d1, d2, keys[i]) THEN Raised
    ELSE [raised |-> FALSE,
          doc    |-> [i \in 1..Len(keys) |->
                        [name |-> keys[i], body |-> MergedBody(d1, d2, keys[i])]]]

\* read_dict, line 280: the DEFAULT entry sets the defaults (none here), the
\* other entries become the sections, in order.
read_dict(d) == SelectSeq(d, LAMBDA s : s.name # "DEFAULT")

\* merge_configs(cfg1, cfg2), lines 237-282: every result it can give
merge_configs(cfg1, cfg2) ==
    LET d1 == to_dict(cfg1)
        d2 == to_dict(cfg2)
    IN  {LET m == merge_dicts(d1, d2, keys)
         IN  IF m.raised THEN Raised ELSE [raised |-> FALSE, doc |-> read_dict(m.doc)]
         : keys \in SortedKeys(d1, d2)}

-----------------------------------------------------------------------------
(* SpecMerge: three documents merged in both groupings *)

MaxSections == 2
MaxKeys == 1

MergeSectionNames == {"metadata", "options"}
MergeKeys == {"name", "version"}
MergeValues == {"x", "y"}

MergeEntries == [key : MergeKeys, value : MergeValues]

MergeBodies ==
    {b \in SeqsUpTo(MergeEntries, MaxKeys) :
        \A i, j \in 1..Len(b) : b[i].key = b[j].key => i = j}

MergeDocs ==
    {d \in SeqsUpTo([name : MergeSectionNames, body : MergeBodies], MaxSections) :
        \A i, j \in 1..Len(d) : d[i].name = d[j].name => i = j}

NotMerged == [raised |-> FALSE, doc |-> <<>>]

InitMerge ==
    /\ m_pc = "AB"
    /\ m_A \in MergeDocs
    /\ m_B \in MergeDocs
    /\ m_C \in MergeDocs
    /\ m_AB = NotMerged
    /\ m_AB_C = NotMerged
    /\ m_BC = NotMerged
    /\ m_A_BC = NotMerged

IdleMerge ==
    /\ m_pc = "idle"
    /\ m_A = <<>>
    /\ m_B = <<>>
    /\ m_C = <<>>
    /\ m_AB = NotMerged
    /\ m_AB_C = NotMerged
    /\ m_BC = NotMerged
    /\ m_A_BC = NotMerged

\* merge_configs(A, B)
MergeAB ==
    /\ m_pc = "AB"
    /\ m_AB' \in merge_configs(m_A, m_B)
    /\ m_pc' = "AB_C"
    /\ UNCHANGED <<m_A, m_B, m_C, m_AB_C, m_BC, m_A_BC>>
    /\ UNCHANGED <<nameVars, depVars, orchVars, setupVars, py2cfgVars>>

\* merge_configs(merge_configs(A, B), C): the exception of the inner call
\* propagates.
MergeAB_C ==
    /\ m_pc = "AB_C"
    /\ m_AB_C' \in (IF m_AB.raised THEN {Raised} ELSE merge_configs(m_AB.doc, m_C))
    /\ m_pc' = "BC"
    /\ UNCHANGED <<m_A, m_B, m_C, m_AB, m_BC, m_A_BC>>
    /\ UNCHANGED <<nameVars, depVars, orchVars, setupVars, py2cfgVars>>

\* merge_configs(B, C)
MergeBC ==
    /\ m_pc = "BC"
    /\ m_BC' \in merge_configs(m_B, m_C)
    /\ m_pc' = "A_BC"
    /\ UNCHANGED <<m_A, m_B, m_C, m_AB, m_AB_C, m_A_BC>>
    /\ UNCHANGED <<nameVars, depVars, orchVars, setupVars, py2cfgVars>>

\* merge_configs(A, merge_configs(B, C))
MergeA_BC ==
    /\ m_pc = "A_BC"
    /\ m_A_BC' \in (IF m_BC.raised THEN {Raised} ELSE merge_configs(m_A, m_BC.doc))
    /\ m_pc' = "done"
    /\ UNCHANGED <<m_A, m_B, m_C, m_AB, m_AB_C, m_BC>>
    /\ UNCHANGED <<nameVars, depVars, orchVars, setupVars, py2cfgVars>>

NextMerge == MergeAB \/ MergeAB_C \/ MergeBC \/ MergeA_BC

\* The content of a document: its (section, key, value) triples and its
\* section names.
SectionNames(d) == {d[i].name : i \in 1..Len(d)}

BodyPairs(b) == {<<b[i].key, b[i].value>> : i \in 1..Len(b)}

SameContent(d, e) ==
    /\ SectionNames(d) = SectionNames(e)
    /\ \A k \in SectionNames(d) : BodyPairs(DictGet(d, k)) = BodyPairs(DictGet(e, k))

\* C7: merge_configs(A, B) returns a document, and every section that only
\* one of A and B has is in it with exactly its key/value pairs.
C7_MergeTotal ==
    m_pc \notin {"idle", "AB"} =>
        /\ ~m_AB.raised
        /\ \A k \in SectionNames(m_A) \ SectionNames(m_B) :
              HasKey(m_AB.doc, k) /\ BodyPairs(DictGet(m_AB.doc, k)) = BodyPairs(DictGet(m_A, k))
        /\ \A k \in SectionNames(m_B) \ SectionNames(m_A) :
              HasKey(m_AB.doc, k) /\ BodyPairs(DictGet(m_AB.doc, k)) = BodyPairs(DictGet(m_B, k))

\* No key of a section is given different values by two of the documents.
Agree(d, e) ==
    \A k \in SectionNames(d) \cap SectionNames(e) :
        \A p \in BodyPairs(DictGet(d, k)), q \in BodyPairs(DictGet(e, k)) :
            p[1] = q[1] => p[2] = q[2]

NoConflict == Agree(m_A, m_B) /\ Agree(m_B, m_C) /\ Agree(m_A, m_C)

\* C8: for documents without conflicting values, the two groupings either
\* both raise or both return documents with the same sections and, in each
\* section, the same keys with the same values.
C8_MergeAssociative ==
    (m_pc = "done" /\ NoConflict) =>
        \/ m_AB_C.raised /\ m_A_BC.raised
        \/ /\ ~m_AB_C.raised
           /\ ~m_A_BC.raised
           /\ SameContent(m_AB_C.doc, m_A_BC.doc)

\* The section names of the first document in order, then the names only
\* the second one has, in its order.
FirstSeenSections(d, e) ==
    DictKeys(d) \o SelectSeq(DictKeys(e), LAMBDA k : ~HasKey(d, k))

BodyKeys(b) == [i \in 1..Len(b) |-> b[i].key]

\* The keys of section k of the first document in order, then the keys only
\* the second document's section k has, in its order.
FirstSeenKeys(d, e, k) ==
    LET b1 == IF HasKey(d, k) THEN BodyKeys(DictGet(d, k)) ELSE <<>>
        b2 == IF HasKey(e, k) THEN BodyKeys(DictGet(e, k)) ELSE <<>>
    IN  b1 \o SelectSeq(b2, LAMBDA x : \A i \in 1..Len(b1) : b1[i] # x)

SameOrder(d, e) ==
    /\ DictKeys(d) = DictKeys(e)
    /\ \A i \in 1..Len(d) : BodyKeys(d[i].body) = BodyKeys(e[i].body)

\* C13: a document returned by merge_configs(A, B) has the sections of A in
\* A's order followed by the sections only B has in B's order, and in every
\* section the keys of A's section in order followed by the keys only B's
\* section has (so the order is a function of A and B); and merging the
\* result with B again returns a document with the same section and key
\* order.
C13_FirstSeenOrder ==
    (m_pc \notin {"idle", "AB"} /\ ~m_AB.raised) =>
        /\ DictKeys(m_AB.doc) = FirstSeenSections(m_A, m_B)
        /\ \A i \in 1..Len(m_AB.doc) :
              BodyKeys(m_AB.doc[i].body) = FirstSeenKeys(m_A, m_B, m_AB.doc[i].name)
        /\ (m_pc # "AB_C" /\ m_C = m_B /\ ~m_AB_C.raised) => SameOrder(m_AB_C.doc, m_AB.doc)

-----------------------------------------------------------------------------
(* SpecSetup: execsetup and setup_to_cfg *)

MaxScriptSteps == 3

Dirs == {"caller", "project", "elsewhere"}
NoDir == "missing"

ModuleNames == {"setuptools", "helper"}

NoCall == [called |-> FALSE, kwargs |-> <<>>]
NoFile == [exists |-> FALSE, doc |-> <<>>]

\* The keyword arguments a script may give to setup
SetupKwargs == {b \in MergeBodies : \A i \in 1..Len(b) : b[i].value = "x"}

\* The setup.cfg files a project may already have
ExistingCfgs ==
    {<<>>,
     <<[name |-> "options", body |-> <<>>]>>,
     <<[name |-> "metadata", body |-> <<[key |-> "name", value |-> "y"]>>]>>}

\* py2cfg, lines 83-85, for keyword arguments among name and version: setif
\* copies name, then version.
py2cfg(setup) ==
    SelectSeq(setup, LAMBDA e : e.key = "name") \o SelectSeq(setup, LAMBDA e : e.key = "version")

\* The new configuration, lines 50-56: a metadata section if there is metadata
NewConfig(metadata) ==
    IF metadata # <<>> THEN <<[name |-> "metadata", body |-> metadata]>> ELSE <<>>

\* The mutant: the finally clause leaves the directory where the script left it.
RestoredCwd_not(saved, current) == current

\* finally: os.chdir(str(cwd)), line 31
RestoredCwd(saved, current) == saved

\* The mutant: only the call of setup is required.
CaptureError_setup_only(setup_call_args, find_call_args) == ~setup_call_args.called

\* lines 34-39: either call_args is None
CaptureError(setup_call_args, find_call_args) ==
    ~setup_call_args.called \/ ~find_call_args.called

InitSetup ==
    /\ s_pc = "start"
    /\ s_cwd0 \in Dirs
    /\ s_cwd = s_cwd0
    /\ s_modules0 \in [ModuleNames -> {"absent", "real"}]
    /\ s_modules = s_modules0
    /\ s_original = s_modules0
    /\ s_saved = s_cwd0
    /\ s_script_dir \in Dirs \cup {NoDir}
    /\ s_script_log = <<>>
    /\ s_setup_call_args = NoCall
    /\ s_find_call_args = NoCall
    /\ s_exc = "none"
    /\ s_cfg0 \in {NoFile} \cup {[exists |-> TRUE, doc |-> d] : d \in ExistingCfgs}
    /\ s_cfg = s_cfg0
    /\ s_writes = 0

IdleSetup ==
    /\ s_pc = "idle"
    /\ s_cwd0 = "caller"
    /\ s_cwd = "caller"
    /\ s_modules0 = [n \in ModuleNames |-> "absent"]
    /\ s_modules = s_modules0
    /\ s_original = s_modules0
    /\ s_saved = "caller"
    /\ s_script_dir = NoDir
    /\ s_script_log = <<>>
    /\ s_setup_call_args = NoCall
    /\ s_find_call_args = NoCall
    /\ s_exc = "none"
    /\ s_cfg0 = NoFile
    /\ s_cfg = NoFile
    /\ s_writes = 0

OtherVars == <<nameVars, depVars, orchVars, mergeVars, py2cfgVars>>

\* with patch.dict('sys.modules', {'setuptools': mock_setuptools}), line 25:
\* the table is copied, then the entry is set.
EnterPatch ==
    /\ s_pc = "start"
    /\ s_original' = s_modules
    /\ s_modules' = [s_modules EXCEPT !["setuptools"] = "mock"]
    /\ s_pc' = "patched"
    /\ UNCHANGED <<s_cwd, s_cwd0, s_modules0, s_saved, s_script_dir, s_script_log,
                   s_setup_call_args, s_find_call_args, s_exc, s_cfg, s_cfg0, s_writes>>
    /\ UNCHANGED OtherVars

\* cwd = Path.cwd(), line 26
SaveCwd ==
    /\ s_pc = "patched"
    /\ s_saved' = s_cwd
    /\ s_pc' = "try"
    /\ UNCHANGED <<s_cwd, s_cwd0, s_modules, s_modules0, s_original, s_script_dir,
                   s_script_log, s_setup_call_args, s_find_call_args, s_exc, s_cfg,
                   s_cfg0, s_writes>>
    /\ UNCHANGED OtherVars

\* os.chdir(str(setup_py.parent)), line 28: raises if there is no such directory
ChdirToScript ==
    /\ s_pc = "try"
    /\ IF s_script_dir = NoDir
       THEN s_exc' = "chdir" /\ s_pc' = "finally" /\ UNCHANGED s_cwd
       ELSE s_cwd' = s_script_dir /\ s_pc' = "run" /\ UNCHANGED s_exc
    /\ UNCHANGED <<s_cwd0, s_modules, s_modules0, s_original, s_saved, s_script_dir,
                   s_script_log, s_setup_call_args, s_find_call_args, s_cfg, s_cfg0,
                   s_writes>>
    /\ UNCHANGED OtherVars

ScriptMayStep == s_pc = "run" /\ Len(s_script_log) < MaxScriptSteps

\* runpy.run_path, line 29: the script calls setuptools.setup(**kwargs); it
\* reaches the mock through the entry of sys.modules.
ScriptCallsSetup ==
    /\ ScriptMayStep
    /\ s_modules["setuptools"] = "mock"
    /\ \E kwargs \in SetupKwargs : s_setup_call_args' = [called |-> TRUE, kwargs |-> kwargs]
    /\ s_script_log' = Append(s_script_log, "setup")
    /\ UNCHANGED <<s_pc, s_cwd, s_cwd0, s_modules, s_modules0, s_original, s_saved,
                   s_script_dir, s_find_call_args, s_exc, s_cfg, s_cfg0, s_writes>>
    /\ UNCHANGED OtherVars

\* the script calls setuptools.find_packages()
ScriptCallsFindPackages ==
    /\ ScriptMayStep
    /\ s_modules["setuptools"] = "mock"
    /\ s_find_call_args' = [called |-> TRUE, kwargs |-> <<>>]
    /\ s_script_log' = Append(s_script_log, "find_packages")
    /\ UNCHANGED <<s_pc, s_cwd, s_cwd0, s_modules, s_modules0, s_original, s_saved,
                   s_script_dir, s_setup_call_args, s_exc, s_cfg, s_cfg0, s_writes>>
    /\ UNCHANGED OtherVars

\* the script changes the working directory
ScriptChdir ==
    /\ ScriptMayStep
    /\ \E d \in Dirs : s_cwd' = d
    /\ s_script_log' = Append(s_script_log, "chdir")
    /\ UNCHANGED <<s_pc, s_cwd0, s_modules, s_modules0, s_original, s_saved,
                   s_script_dir, s_setup_call_args, s_find_call_args, s_exc, s_cfg,
                   s_cfg0, s_writes>>
    /\ UNCHANGED OtherVars

\* the script removes an entry of sys.modules, or puts one there (by an
\* import or by an assignment)
ScriptSetsModule ==
    /\ ScriptMayStep
    /\ \E n \in ModuleNames, v \in {"absent", "script"} :
          s_modules' = [s_modules EXCEPT ![n] = v]
    /\ s_script_log' = Append(s_script_log, "modules")
    /\ UNCHANGED <<s_pc, s_cwd, s_cwd0, s_modules0, s_original, s_saved, s_script_dir,
                   s_setup_call_args, s_find_call_args, s_exc, s_cfg, s_cfg0, s_writes>>
    /\ UNCHANGED OtherVars

\* the script, or run_path itself, raises
ScriptRaises ==
    /\ s_pc = "run"
    /\ s_exc' = "script"
    /\ s_pc' = "finally"
    /\ UNCHANGED <<s_cwd, s_cwd0, s_modules, s_modules0, s_original, s_saved,
                   s_script_dir, s_script_log, s_setup_call_args, s_find_call_args,
                   s_cfg, s_cfg0, s_writes>>
    /\ UNCHANGED OtherVars

\* the script runs to its end
ScriptEnds ==
    /\ s_pc = "run"
    /\ s_pc' = "finally"
    /\ UNCHANGED <<s_cwd, s_cwd0, s_modules, s_modules0, s_original, s_saved,
                   s_script_dir, s_script_log, s_setup_call_args, s_find_call_args,
                   s_exc, s_cfg, s_cfg0, s_writes>>
    /\ UNCHANGED OtherVars

\* finally: os.chdir(str(cwd)), lines 30-31
Finally ==
    /\ s_pc = "finally"
    /\ s_cwd' = RestoredCwd(s_saved, s_cwd)
    /\ s_pc' = "exit"
    /\ UNCHANGED <<s_cwd0, s_modules, s_modules0, s_original, s_saved, s_script_dir,
                   s_script_log, s_setup_call_args, s_find_call_args, s_exc, s_cfg,
                   s_cfg0, s_writes>>
    /\ UNCHANGED OtherVars

\* the end of the with block: patch.dict clears the table and fills it from
\* its copy; an exception in flight leaves execsetup.
ExitPatch ==
    /\ s_pc = "exit"
    /\ s_modules' = s_original
    /\ s_pc' = IF s_exc = "none" THEN "check" ELSE "raised"
    /\ UNCHANGED <<s_cwd, s_cwd0, s_modules0, s_original, s_saved, s_script_dir,
                   s_script_log, s_setup_call_args, s_find_call_args, s_exc, s_cfg,
                   s_cfg0, s_writes>>
    /\ UNCHANGED OtherVars

\* lines 33-41: ValueError unless both mocks were called
CheckCalls ==
    /\ s_pc = "check"
    /\ IF CaptureError(s_setup_call_args, s_find_call_args)
       THEN s_exc' = "capture" /\ s_pc' = "raised"
       ELSE s_pc' = "returned" /\ UNCHANGED s_exc
    /\ UNCHANGED <<s_cwd, s_cwd0, s_modules, s_modules0, s_original, s_saved,
                   s_script_dir, s_script_log, s_setup_call_args, s_find_call_args,
                   s_cfg, s_cfg0, s_writes>>
    /\ UNCHANGED OtherVars

\* setup_to_cfg after execsetup has returned, lines 47-68: the new
\* configuration, merged into the existing setup.cfg if there is one, is
\* written to setup.cfg.
WriteCfg ==
    /\ s_pc = "returned"
    /\ LET new == NewConfig(py2cfg(s_setup_call_args.kwargs))
       IN  \E m \in (IF s_cfg.exists THEN merge_configs(s_cfg.doc, new)
                     ELSE {[raised |-> FALSE, doc |-> new]}) :
              IF m.raised
              THEN s_exc' = "merge" /\ s_pc' = "raised" /\ UNCHANGED <<s_cfg, s_writes>>
              ELSE /\ s_cfg' = [exists |-> TRUE, doc |-> m.doc]
                   /\ s_writes' = s_writes + 1
                   /\ s_pc' = "written"
                   /\ UNCHANGED s_exc
    /\ UNCHANGED <<s_cwd, s_cwd0, s_modules, s_modules0, s_original, s_saved,
                   s_script_dir, s_script_log, s_setup_call_args, s_find_call_args,
                   s_cfg0>>
    /\ UNCHANGED OtherVars

NextSetup ==
    \/ EnterPatch
    \/ SaveCwd
    \/ ChdirToScript
    \/ ScriptCallsSetup
    \/ ScriptCallsFindPackages
    \/ ScriptChdir
    \/ ScriptSetsModule
    \/ ScriptRaises
    \/ ScriptEnds
    \/ Finally
    \/ ExitPatch
    \/ CheckCalls
    \/ WriteCfg

\* execsetup is over: it returned or raised
ExecsetupOver == s_pc \in {"check", "returned", "raised", "written"}

ScriptDid(step) == \E i \in 1..Len(s_script_log) : s_script_log[i] = step

\* C4: outside the with block of execsetup, before the call and after it on
\* every exit path, the working directory and the setuptools entry of
\* sys.modules are those in force before the call.
C4_AmbientStateRestored ==
    (s_pc = "start" \/ ExecsetupOver) =>
        /\ s_cwd = s_cwd0
        /\ s_modules["setuptools"] = s_modules0["setuptools"]

\* A script that changed directory and sys.modules and then raised.
C4_Witness ==
    /\ s_pc = "raised"
    /\ s_exc = "script"
    /\ s_script_dir # s_cwd0
    /\ ScriptDid("chdir")
    /\ ScriptDid("modules")

\* The script ran to its end, and execsetup has passed its run.
ScriptFinished ==
    /\ s_pc \in {"finally", "exit", "check", "returned", "raised", "written"}
    /\ s_exc \notin {"chdir", "script"}

\* C5: once the script has finished without a call of setup or without a call
\* of find_packages, setup.cfg stays as it was, nothing is written, and
\* setup_to_cfg ends with the capture error.
C5_NoWriteWithoutCapture ==
    (ScriptFinished /\ (~s_setup_call_args.called \/ ~s_find_call_args.called)) =>
        /\ s_cfg = s_cfg0
        /\ s_writes = 0
        /\ s_pc \notin {"returned", "written"}
        /\ s_pc = "raised" => s_exc = "capture"

\* A script that called setup but not find_packages, with a setup.cfg on disk.
C5_Witness ==
    /\ s_pc = "raised"
    /\ s_exc = "capture"
    /\ s_setup_call_args.called
    /\ ~s_find_call_args.called
    /\ s_cfg0.exists
    /\ s_cfg = s_cfg0

-----------------------------------------------------------------------------
(* SpecPy2cfg: py2cfg on the captured arguments *)

\* The Python values of this part.  A str is a TLA+ string here; a dict is
\* the sequence of its [key, value] items.
PyNone == [kind |-> "None", str |-> "", list |-> <<>>, items |-> <<>>]
PyStr(s) == [kind |-> "str", str |-> s, list |-> <<>>, items |-> <<>>]
PyList(l) == [kind |-> "list", str |-> "", list |-> l, items |-> <<>>]
PyDict(items) == [kind |-> "dict", str |-> "", list |-> <<>>, items |-> items]
\* find_packages(...) in the script returns mock_find_packages.return_value
PyMock == [kind |-> "Mock", str |-> "", list |-> <<>>, items |-> <<>>]

\* key in d, d[key] and d[key] = value for a dict given by its items
InDict(items, key) == \E i \in 1..Len(items) : items[i].key = key

DictValue(items, key) == items[CHOOSE i \in 1..Len(items) : items[i].key = key].value

DictSet(items, key, value) ==
    IF InDict(items, key)
    THEN [i \in 1..Len(items) |->
            IF items[i].key = key THEN [key |-> key, value |-> value] ELSE items[i]]
    ELSE Append(items, [key |-> key, value |-> value])

\* dangling_list_threshold=100, line 48
dangling_list_threshold == 100

\* sep.join(seq)
RECURSIVE str_join(_, _)
str_join(sep, seq) ==
    IF seq = <<>> THEN ""
    ELSE IF Len(seq) = 1 THEN seq[1]
    ELSE seq[1] \o sep \o str_join(sep, Tail(seq))

\* join_lines, lines 165-166
join_lines(seq) == "\n" \o str_join("\n", seq)

\* list_semi, lines 169-171, with threshold bound at line 78
list_semi(value) ==
    LET s == str_join("; ", value)
    IN  IF Len(s) > dangling_list_threshold THEN join_lines(value) ELSE s

\* list_comma, lines 176-180, on a list
list_comma(value) ==
    LET s == str_join(", ", value)
    IN  IF Len(s) <= dangling_list_threshold THEN s ELSE join_lines(value)

\* ensure_list, lines 192-193
ensure_list(value) == IF value.kind = "list" THEN value.list ELSE <<value.str>>

\* extract_section, lines 226-234: None for a value that is no dict
extract_section(value) ==
    IF value.kind = "dict"
    THEN PyDict([i \in 1..Len(value.items) |->
                   [key   |-> value.items[i].key,
                    value |-> PyStr(list_semi(ensure_list(value.items[i].value)))]])
    ELSE PyNone

\* What py2cfg may be given as mock_find_packages: the Mock of
\* find_packages, or, as setup_to_cfg does (lines 41 and 47-48), the call
\* object that is the call_args of that Mock.
FindPackagesMock(called, kwargs) == [kind |-> "Mock", called |-> called, kwargs |-> kwargs]

FindPackagesCall(kwargs) == [kind |-> "call", called |-> TRUE, kwargs |-> kwargs]

\* mock_find_packages.call_args, line 199.  On a Mock it is the last call, or
\* None; on a call object the attribute is looked up as a method of the call
\* and gives a new, non-None call object without arguments.
call_args(mock_find_packages) ==
    IF mock_find_packages.kind = "Mock"
    THEN [none |-> ~mock_find_packages.called, kwargs |-> mock_find_packages.kwargs]
    ELSE [none |-> FALSE, kwargs |-> <<>>]

\* find_or_list_comma, lines 196-211, as bound at line 80.  For a value
\* that is no Mock, line 211 passes threshold by position to list_comma,
\* which line 77 has bound with threshold by keyword: TypeError.
find_or_list_comma(value, sections, mock_find_packages) ==
    LET WithCall(call) ==
            IF ~call.none
            THEN [exc      |-> "none",
                  value    |-> PyStr("find:"),
                  sections |-> IF InDict(call.kwargs, "findSection")
                               THEN DictSet(sections, "options.packages.find",
                                            extract_section(DictValue(call.kwargs, "findSection")))
                               ELSE sections]
            ELSE [exc |-> "ValueError", value |-> PyNone, sections |-> sections]
    IN  IF value.kind = "Mock"
        THEN WithCall(call_args(mock_find_packages))
        ELSE [exc |-> "TypeError", value |-> PyNone, sections |-> sections]

\* setif(setup, options, 'packages', find_or_list_comma), lines 106 and
\* 214-223: find_or_list_comma is not one of the list transforms of line 219,
\* so it is given the value as it is.
py2cfg_packages(setup, mock_find_packages) ==
    LET Set(r) == [exc      |-> r.exc,
                   options  |-> IF r.exc = "none" THEN <<[key |-> "packages", value |-> r.value]>>
                                ELSE <<>>,
                   sections |-> r.sections]
    IN  IF InDict(setup, "packages")
        THEN Set(find_or_list_comma(DictValue(setup, "packages"), <<>>, mock_find_packages))
        ELSE [exc |-> "none", options |-> <<>>, sections |-> <<>>]

\* The keyword arguments of setup: a name or none, and packages given as
\* find_packages(...), as a list, as a str, or not at all.
Py2cfgSetups ==
    {n \o p : n \in {<<>>, <<[key |-> "name", value |-> PyStr("x")]>>},
              p \in {<<>>} \cup {<<[key |-> "packages", value |-> v]>> :
                                    v \in {PyMock, PyList(<<"a", "b">>), PyStr("a")}}}

FindWhere == [key |-> "where", value |-> PyStr("src")]
FindInclude == [key |-> "include", value |-> PyList(<<"a", "b">>)]
FindExclude == [key |-> "exclude", value |-> PyList(<<"t">>)]

\* The keyword arguments of the call of find_packages
FindKwargs ==
    {<<>>,
     <<FindWhere>>,
     <<FindWhere, FindInclude>>,
     <<FindWhere, FindInclude, FindExclude>>,
     <<[key |-> "findSection", value |-> PyDict(<<FindWhere, FindInclude>>)]>>,
     <<[key |-> "findSection", value |-> PyStr("src")]>>}

NoResult == [metadata |-> <<>>, options |-> <<>>, sections |-> <<>>, exc |-> "none"]

InitPy2cfg ==
    /\ p_pc = "call"
    /\ p_setup \in Py2cfgSetups
    /\ p_mock_find_packages \in
          {FindPackagesMock(FALSE, <<>>)}
              \cup {FindPackagesMock(TRUE, k) : k \in FindKwargs}
              \cup {FindPackagesCall(k) : k \in FindKwargs}
    /\ p_result = NoResult

IdlePy2cfg ==
    /\ p_pc = "idle"
    /\ p_setup = <<>>
    /\ p_mock_find_packages = FindPackagesMock(FALSE, <<>>)
    /\ p_result = NoResult

\* py2cfg(setup, ..., mock_find_packages), lines 72-142, for the keyword
\* arguments name, version and packages
Py2cfg ==
    /\ p_pc = "call"
    /\ LET Returned(r) ==
               IF r.exc = "none"
               THEN /\ p_result' = [metadata |-> py2cfg(p_setup), options |-> r.options,
                                    sections |-> r.sections, exc |-> "none"]
                    /\ p_pc' = "returned"
               ELSE /\ p_result' = [NoResult EXCEPT !.exc = r.exc]
                    /\ p_pc' = "raised"
       IN  Returned(py2cfg_packages(p_setup, p_mock_find_packages))
    /\ UNCHANGED <<p_setup, p_mock_find_packages>>
    /\ UNCHANGED <<nameVars, depVars, orchVars, mergeVars, setupVars>>

NextPy2cfg == Py2cfg

\* The captured packages value is the stand-in of find_packages, and a call
\* of find_packages was recorded.
DiscoveryRecorded ==
    /\ InDict(p_setup, "packages")
    /\ DictValue(p_setup, "packages") = PyMock
    /\ p_mock_find_packages.called

\* The renderings of a str or list value by the comma and the semicolon rule
ListRenderings(value) ==
    {PyStr(list_comma(ensure_list(value))), PyStr(list_semi(ensure_list(value)))}

\* C14: when py2cfg is over for a packages value that is the stand-in of
\* find_packages with a recorded call, it has returned, options has packages
\* = 'find:', and if the recorded call had keyword arguments, sections has a
\* non-empty 'options.packages.find' that holds every str or list keyword
\* argument of the call, rendered by the comma or the semicolon rule.
C14_FindSectionRecorded ==
    (p_pc \in {"returned", "raised"} /\ DiscoveryRecorded) =>
        LET kwargs == p_mock_find_packages.kwargs
            s == p_result.sections
        IN  /\ p_pc = "returned"
            /\ p_result.options = <<[key |-> "packages", value |-> PyStr("find:")]>>
            /\ kwargs # <<>> =>
                  /\ InDict(s, "options.packages.find")
                  /\ DictValue(s, "options.packages.find").kind = "dict"
                  /\ DictValue(s, "options.packages.find").items # <<>>
                  /\ \A i \in 1..Len(kwargs) : kwargs[i].value.kind \in {"str", "list"} =>
                        /\ InDict(DictValue(s, "options.packages.find").items, kwargs[i].key)
                        /\ DictValue(DictValue(s, "options.packages.find").items, kwargs[i].key)
                               \in ListRenderings(kwargs[i].value)

-----------------------------------------------------------------------------
(* The specifications *)

\* Each specification runs one part and leaves the others idle.
InitSpecName == InitName /\ IdleDep /\ IdleOrch /\ IdleMerge /\ IdleSetup /\ IdlePy2cfg

SpecName == InitSpecName /\ [][NextName]_vars

InitSpecDep == InitDep /\ IdleName /\ IdleOrch /\ IdleMerge /\ IdleSetup /\ IdlePy2cfg

SpecDep == InitSpecDep /\ [][NextDep]_vars

InitSpecOrch == InitOrch /\ IdleName /\ IdleDep /\ IdleMerge /\ IdleSetup /\ IdlePy2cfg

SpecOrch == InitSpecOrch /\ [][NextOrch]_vars

InitSpecMerge == InitMerge /\ IdleName /\ IdleDep /\ IdleOrch /\ IdleSetup /\ IdlePy2cfg

SpecMerge == InitSpecMerge /\ [][NextMerge]_vars

InitSpecSetup == InitSetup /\ IdleName /\ IdleDep /\ IdleOrch /\ IdleMerge /\ IdlePy2cfg

SpecSetup == InitSpecSetup /\ [][NextSetup]_vars

InitSpecPy2cfg ==
    InitPy2cfg /\ IdleName /\ IdleDep /\ IdleOrch /\ IdleMerge /\ IdleSetup

SpecPy2cfg == InitSpecPy2cfg /\ [][NextPy2cfg]_vars

=============================================================================
